---- MODULE Spec2Model ----
(***************************************************************************)
(* Model of server/index.js: the /api/generate handler, the Random.org     *)
(* verify-page parser (markup mode and text fallback), the name-list       *)
(* extractor and the view builders.                                        *)
(*                                                                         *)
(* Strings are sequences of one-character strings.  A fetched page is      *)
(* modelled as the element tree cheerio.load builds from it: <body> holds  *)
(* a sequence of nodes, each a leaf with text or a container of leaves.    *)
(* Pages are pretty-printed: every node's text starts on its own line.     *)
(***************************************************************************)
EXTENDS Integers, Sequences, FiniteSets, TLC

\* ------------------------------------------------------------------ bounds
MaxBlocks == 4
MaxBottom == 2
MaxViewRounds == 2
MaxViewNames == 2

\* ------------------------------------------------------------- characters
NBSP == "U+00A0"
Digits == {"0", "1", "2", "3", "4", "5", "6", "7", "8", "9"}
LineTerminators == {"\n", "\r"}
\* the characters \s matches, and String.prototype.trim removes
WhiteSpace == {" ", "\t", "U+00A0", "\n", "\r"}

DigitVal(c) ==
  CASE c = "0" -> 0 [] c = "1" -> 1 [] c = "2" -> 2 [] c = "3" -> 3
    [] c = "4" -> 4 [] c = "5" -> 5 [] c = "6" -> 6 [] c = "7" -> 7
    [] c = "8" -> 8 [] c = "9" -> 9

DigitChar(d) ==
  CASE d = 0 -> "0" [] d = 1 -> "1" [] d = 2 -> "2" [] d = 3 -> "3"
    [] d = 4 -> "4" [] d = 5 -> "5" [] d = 6 -> "6" [] d = 7 -> "7"
    [] d = 8 -> "8" [] d = 9 -> "9"

UpperCase == {"A", "B", "C", "D", "E", "F", "G", "H", "I", "J", "K", "L", "M",
              "N", "O", "P", "Q", "R", "S", "T", "U", "V", "W", "X", "Y", "Z"}

LowerCaseOf ==
  [c \in UpperCase |->
     CASE c = "A" -> "a" [] c = "B" -> "b" [] c = "C" -> "c" [] c = "D" -> "d"
       [] c = "E" -> "e" [] c = "F" -> "f" [] c = "G" -> "g" [] c = "H" -> "h"
       [] c = "I" -> "i" [] c = "J" -> "j" [] c = "K" -> "k" [] c = "L" -> "l"
       [] c = "M" -> "m" [] c = "N" -> "n" [] c = "O" -> "o" [] c = "P" -> "p"
       [] c = "Q" -> "q" [] c = "R" -> "r" [] c = "S" -> "s" [] c = "T" -> "t"
       [] c = "U" -> "u" [] c = "V" -> "v" [] c = "W" -> "w" [] c = "X" -> "x"
       [] c = "Y" -> "y" [] c = "Z" -> "z"]

\* the i flag of the regular expressions: letters compare case-insensitively
Lower(c) == IF c \in UpperCase THEN LowerCaseOf[c] ELSE c

Range(s) == {s[i] : i \in 1..Len(s)}

Min(a, b) == IF a < b THEN a ELSE b
Max(a, b) == IF a > b THEN a ELSE b

\* Number("<digits>")
RECURSIVE DigitsToNumber(_)
DigitsToNumber(s) ==
  IF s = <<>> THEN 0
  ELSE 10 * DigitsToNumber(SubSeq(s, 1, Len(s) - 1)) + DigitVal(s[Len(s)])

\* `${num}` for a non-negative integer
RECURSIVE NumberToString(_)
NumberToString(n) ==
  IF n < 10 THEN <<DigitChar(n)>>
  ELSE NumberToString(n \div 10) \o <<DigitChar(n % 10)>>

\* first index >= i of s whose character is outside set, Len(s)+1 if none
RECURSIVE SkipWhile(_, _, _)
SkipWhile(s, i, set) ==
  IF i <= Len(s) /\ s[i] \in set THEN SkipWhile(s, i + 1, set) ELSE i

\* last index <= i of s whose character is outside set, 0 if none
RECURSIVE SkipBack(_, _, _)
SkipBack(s, i, set) ==
  IF i >= 1 /\ s[i] \in set THEN SkipBack(s, i - 1, set) ELSE i

\* first index >= i of s whose character is in set, Len(s)+1 if none
RECURSIVE SkipUntil(_, _, _)
SkipUntil(s, i, set) ==
  IF i <= Len(s) /\ s[i] \notin set THEN SkipUntil(s, i + 1, set) ELSE i

\* s contains the literal lit at index i, compared case-insensitively
LitAt(s, i, lit) ==
  /\ i + Len(lit) - 1 <= Len(s)
  /\ \A k \in 1..Len(lit) :
       s[i + k - 1] = lit[k] \/ Lower(s[i + k - 1]) = Lower(lit[k])

\* the indexes at which s contains lit, compared case-insensitively
LitIndexes(s, lit) ==
  LET first == {lit[1], Lower(lit[1])}
  IN {i \in 1..(Len(s) - Len(lit) + 1) :
        (s[i] \in first \/ Lower(s[i]) \in first) /\ LitAt(s, i, lit)}

\* /lit/i.test(s)
Contains(s, lit) == LitIndexes(s, lit) # {}

\* ------------------------------------------------------------------- norm
\* String.prototype.trim
Trim(s) == SubSeq(s, SkipWhile(s, 1, WhiteSpace), SkipBack(s, Len(s), WhiteSpace))

\* .replace(/[ \t]+/g, " "): the first blank of a run becomes a space, the
\* other blanks of the run go
CollapseBlanks(s) ==
  LET blank(i) == s[i] \in {" ", "\t"}
      marked == [i \in 1..Len(s) |->
                   IF ~blank(i) THEN <<s[i]>>
                   ELSE IF i > 1 /\ blank(i - 1) THEN <<>> ELSE <<" ">>]
      kept == SelectSeq(marked, LAMBDA m : m # <<>>)
  IN [i \in 1..Len(kept) |-> kept[i][1]]

\* strings only: (s || "") is s for every string, and no caller passes undefined
norm(s) ==
  LET noCr == SelectSeq(s, LAMBDA c : c # "\r")
      noNbsp == [i \in 1..Len(noCr) |-> IF noCr[i] = NBSP THEN " " ELSE noCr[i]]
  IN Trim(CollapseBlanks(noNbsp))

\* chunkText.split("\n")
RECURSIVE SplitLines(_)
SplitLines(s) ==
  LET nl == SkipUntil(s, 1, {"\n"})
  IN IF nl > Len(s) THEN <<s>>
     ELSE <<SubSeq(s, 1, nl - 1)>> \o SplitLines(SubSeq(s, nl + 1, Len(s)))
\* ------------------------------------------------------ regular expressions
HeadingLit == <<"R", "e", "s", "u", "l", "t", " ", "o", "f", " ", "R", "o", "u", "n", "d", " ", "#">>

\* the indexes at which /Result of Round #\d+/i matches s
MarkerIndexes(s) ==
  {i \in LitIndexes(s, HeadingLit) :
     i + Len(HeadingLit) <= Len(s) /\ s[i + Len(HeadingLit)] \in Digits}

\* /Result of Round #\d+/i.test(s)
HasMarker(s) == MarkerIndexes(s) # {}

RECURSIVE SortedIndexes(_)
SortedIndexes(idx) ==
  IF idx = {} THEN <<>>
  ELSE LET least == CHOOSE i \in idx : \A j \in idx : i <= j
       IN <<least>> \o SortedIndexes(idx \ {least})

\* Number(m[1]) of the match at index i: \d+ is greedy
RoundNumberAt(s, i) ==
  LET from == i + Len(HeadingLit)
  IN DigitsToNumber(SubSeq(s, from, SkipWhile(s, from, Digits) - 1))

NoMatch == [found |-> FALSE]

\* (.+?)\s*$ from index e, where s[e] is not white space.  The lazy capture
\* stops at the last non-blank character of its line; with the m flag $ also
\* matches before a line terminator, and the match then ends before the last
\* line terminator of the white space that follows.
Capture(s, e, multiline) ==
  LET lineEnd == SkipUntil(s, e, LineTerminators) - 1
      to == SkipBack(s, lineEnd, WhiteSpace)
      g == SkipWhile(s, to + 1, WhiteSpace)
      lts == {i \in (to + 1)..(g - 1) : s[i] \in LineTerminators}
  IN IF g > Len(s)
       THEN [found |-> TRUE, text |-> SubSeq(s, e, to), end |-> Len(s) + 1]
     ELSE IF multiline /\ lts # {}
       THEN [found |-> TRUE, text |-> SubSeq(s, e, to),
             end |-> CHOOSE i \in lts : \A j \in lts : i >= j]
     ELSE NoMatch

\* /^\s*\d+\.\s*\d+\.\s*(.+?)\s*$/ tried at index p (p is a line start).
\* Every string the code applies it to went through norm, so it has no
\* trailing white space and the capture starts at a non-blank character.
TwoNumsAt(s, p, multiline) ==
  LET a == SkipWhile(s, p, WhiteSpace)
      b == SkipWhile(s, a, Digits)
      c == SkipWhile(s, b + 1, WhiteSpace)
      d == SkipWhile(s, c, Digits)
      e == SkipWhile(s, d + 1, WhiteSpace)
  IN IF /\ b > a /\ b <= Len(s) /\ s[b] = "."
        /\ d > c /\ d <= Len(s) /\ s[d] = "."
        /\ e <= Len(s)
     THEN Capture(s, e, multiline)
     ELSE NoMatch

\* /^\s*\d+\.\s*(.+?)\s*$/ tried at index p
OneNumAt(s, p, multiline) ==
  LET a == SkipWhile(s, p, WhiteSpace)
      b == SkipWhile(s, a, Digits)
      e == SkipWhile(s, b + 1, WhiteSpace)
  IN IF b > a /\ b <= Len(s) /\ s[b] = "." /\ e <= Len(s)
     THEN Capture(s, e, multiline)
     ELSE NoMatch

\* ------------------------------------------------------ name-list extractor
cleanName(s) ==
  LET v == norm(s)
      d == SkipWhile(v, 1, Digits)
      w == SkipWhile(v, d, WhiteSpace)
  IN IF v # <<>> /\ d > Len(v) THEN v
     ELSE IF d > 1 /\ w > d /\ w <= Len(v) THEN Trim(SubSeq(v, w, Len(v)))
     ELSE Trim(v)

\* the heading-keyword exclusion of the one-number branch
IsHeadingFragment(candidate) ==
  \/ Contains(candidate, <<"R", "e", "s", "u", "l", "t", " ", "o", "f", " ", "R", "o", "u", "n", "d">>)
  \/ Contains(candidate, <<"R", "o", "u", "n", "d", " ", "#">>)
  \/ Contains(candidate, <<"V", "e", "r", "i", "f", "i", "c", "a", "t", "i", "o", "n">>)

\* the body of the for loop: the names one line contributes
LineNames(line) ==
  LET two == TwoNumsAt(line, 1, FALSE)
      one == OneNumAt(line, 1, FALSE)
  IN IF two.found /\ two.text # <<>>
       THEN (IF cleanName(two.text) # <<>> THEN <<cleanName(two.text)>> ELSE <<>>)
     ELSE IF one.found /\ one.text # <<>>
       THEN (IF cleanName(one.text) # <<>> /\ ~IsHeadingFragment(cleanName(one.text))
             THEN <<cleanName(one.text)>> ELSE <<>>)
     ELSE <<>>

RECURSIVE NamesOfLines(_)
NamesOfLines(lines) ==
  IF lines = <<>> THEN <<>>
  ELSE LineNames(Head(lines)) \o NamesOfLines(Tail(lines))

extractNamesFromChunk(chunkText) ==
  IF chunkText = <<>> THEN <<>>
  ELSE LET split == SplitLines(chunkText)
           lines == SelectSeq([i \in 1..Len(split) |-> norm(split[i])],
                              LAMBDA l : l # <<>>)
       IN NamesOfLines(lines)

\* ------------------------------------------------------------- round lists
\* rounds.sort((a, b) => a.round - b.round): Array.prototype.sort is stable
RECURSIVE InsertRound(_, _)
InsertRound(sorted, r) ==
  IF sorted = <<>> THEN <<r>>
  ELSE IF sorted[Len(sorted)].round <= r.round THEN Append(sorted, r)
  ELSE Append(InsertRound(SubSeq(sorted, 1, Len(sorted) - 1), r), sorted[Len(sorted)])

RECURSIVE SortFrom(_, _)
SortFrom(sorted, rest) ==
  IF rest = <<>> THEN sorted
  ELSE SortFrom(InsertRound(sorted, Head(rest)), Tail(rest))

\* the rounds left in the order they were pushed
KeepPushOrder(rounds) == rounds

SortRounds(rounds) == SortFrom(<<>>, rounds)

\* every round pushed, whatever its names
KeepEveryRound(names) == TRUE

\* if (names.length > 0) rounds.push(...)
KeepRound(names) == Len(names) > 0

ErrNoRoundsMarkup == "No rounds found. Make sure you pasted a Random.org VERIFY link."
ErrNoRoundsText == "No rounds found."
ErrNoNames == "Rounds detected but no participant lines parsed."

\* the outcome of a parse: the exception thrown or the sorted rounds, with the
\* locators consulted and the rounds array as it was before rounds.sort
Failure(msg, modes) ==
  [ok |-> FALSE, error |-> msg, rounds |-> <<>>, pushed |-> <<>>, modes |-> modes]
Success(rounds, modes) ==
  [ok |-> TRUE, error |-> "", rounds |-> SortRounds(rounds), pushed |-> rounds,
   modes |-> modes]

\* ------------------------------------------------------------ text fallback
\* headingRe.exec in a loop: the offsets of the heading matches, in order.
\* The optional " - FINAL" suffix only moves lastIndex past text that cannot
\* start another heading, so it changes neither m.index nor m[1].
TextHeadings(text) ==
  LET ordered == SortedIndexes(MarkerIndexes(text))
  IN [i \in 1..Len(ordered) |->
        [round |-> RoundNumberAt(text, ordered[i]), index |-> ordered[i]]]

\* lineRe.exec in a loop over one chunk, from index p on
\* ^ matches at index 1 and after a line terminator: the match is tried at
\* the first line start at or after p, and where it fails at the next one
RECURSIVE TextChunkNames(_, _)
TextChunkNames(chunk, p) ==
  IF p > Len(chunk) THEN <<>>
  ELSE IF p = 1 \/ chunk[p - 1] \in LineTerminators
  THEN LET lm == TwoNumsAt(chunk, p, TRUE)
       IN IF lm.found
          THEN (IF lm.text # <<>> THEN <<norm(lm.text)>> ELSE <<>>)
               \o TextChunkNames(chunk, lm.end)
          ELSE TextChunkNames(chunk, SkipUntil(chunk, p, LineTerminators) + 1)
  ELSE TextChunkNames(chunk, SkipUntil(chunk, p, LineTerminators) + 1)

RECURSIVE TextRounds(_, _, _)
TextRounds(text, headings, i) ==
  IF i > Len(headings) THEN <<>>
  ELSE LET start == headings[i].index
           end == IF i + 1 <= Len(headings) THEN headings[i + 1].index
                  ELSE Len(text) + 1
           chunk == norm(SubSeq(text, start, end - 1))
           names == TextChunkNames(chunk, 1)
       IN (IF KeepRound(names) THEN <<[round |-> headings[i].round, names |-> names]>>
           ELSE <<>>) \o TextRounds(text, headings, i + 1)

parseFromTextFallback(text, modes) ==
  LET headings == TextHeadings(text)
      rounds == TextRounds(text, headings, 1)
  IN IF Len(headings) = 0 THEN Failure(ErrNoRoundsText, modes)
     ELSE IF Len(rounds) = 0 THEN Failure(ErrNoNames, modes)
     ELSE Success(rounds, modes)
\* -------------------------------------------------------------- markup mode
\* a node of the tree under <body>: a leaf holds text, a container holds leaves
Leaf(tag, text) == [tag |-> tag, text |-> text, kids |-> <<>>]
Box(tag, kids) == [tag |-> tag, text |-> <<>>, kids |-> kids]

RECURSIVE JoinLines(_)
JoinLines(texts) ==
  IF texts = <<>> THEN <<"\n">>
  ELSE <<"\n">> \o Head(texts) \o JoinLines(Tail(texts))

\* $(el).text(): the text of the element and of all its descendants
NodeText(n) ==
  IF n.kids = <<>> THEN n.text
  ELSE JoinLines([i \in 1..Len(n.kids) |-> n.kids[i].text])

\* $("body").text()
BodyText(body) == JoinLines([i \in 1..Len(body) |-> NodeText(body[i])])

SelectorTags == {"h1", "h2", "h3", "h4", "h5", "strong", "b", "p", "div", "span"}

\* the siblings .next() walks from position i: elements only, text nodes skipped
NextSiblings(siblings, i) ==
  SelectSeq(SubSeq(siblings, i + 1, Len(siblings)), LAMBDA n : n.tag # "#text")

\* the element at position i, if the selector matches it and its normalized
\* text has a round heading
HeadingEntry(siblings, i) ==
  LET t == norm(NodeText(siblings[i]))
  IN IF siblings[i].tag \in SelectorTags /\ HasMarker(t)
     THEN <<[text |-> t, after |-> NextSiblings(siblings, i)]>>
     ELSE <<>>

RECURSIVE KidHeadings(_, _)
KidHeadings(kids, i) ==
  IF i > Len(kids) THEN <<>>
  ELSE HeadingEntry(kids, i) \o KidHeadings(kids, i + 1)

\* $(selector).each(...): the heading nodes in document order, each with the
\* siblings that follow it
RECURSIVE HeadingNodes(_, _)
HeadingNodes(body, i) ==
  IF i > Len(body) THEN <<>>
  ELSE HeadingEntry(body, i) \o KidHeadings(body[i].kids, 1) \o HeadingNodes(body, i + 1)

\* the while loop over cur = cur.next()
RECURSIVE WalkSiblings(_, _, _)
WalkSiblings(sibs, i, chunk) ==
  IF i > Len(sibs) THEN chunk
  ELSE LET curText == norm(NodeText(sibs[i]))
       IN IF HasMarker(curText) THEN chunk
          ELSE WalkSiblings(sibs, i + 1,
                 IF curText # <<>> THEN chunk \o <<"\n">> \o curText ELSE chunk)

FirstMarker(s) ==
  CHOOSE i \in MarkerIndexes(s) : \A j \in MarkerIndexes(s) : i <= j

RECURSIVE MarkupRounds(_, _)
MarkupRounds(headingNodes, i) ==
  IF i > Len(headingNodes) THEN <<>>
  ELSE LET headingText == headingNodes[i].text
           roundNum == IF HasMarker(headingText)
                       THEN RoundNumberAt(headingText, FirstMarker(headingText))
                       ELSE i
           chunk == norm(WalkSiblings(headingNodes[i].after, 1, <<>>))
           names == extractNamesFromChunk(chunk)
       IN (IF KeepRound(names) THEN <<[round |-> roundNum, names |-> names]>> ELSE <<>>)
          \o MarkupRounds(headingNodes, i + 1)

\* no fallback at all
NeverTextMode(headingNodes) == FALSE

\* if (headingNodes.length === 0): fall back to the text of <body>
UseTextMode(headingNodes) == Len(headingNodes) = 0

parseRandomOrgVerify(body) ==
  LET headingNodes == HeadingNodes(body, 1)
      t == norm(BodyText(body))
      rounds == MarkupRounds(headingNodes, 1)
  IN IF UseTextMode(headingNodes)
       THEN (IF ~HasMarker(t) THEN Failure(ErrNoRoundsMarkup, <<"markup", "text">>)
             ELSE parseFromTextFallback(t, <<"markup", "text">>))
     ELSE IF Len(rounds) = 0 THEN Failure(ErrNoNames, <<"markup">>)
     ELSE Success(rounds, <<"markup">>)

\* ------------------------------------------------------------ view builders
\* a JavaScript number: an integer, a non-integer between v and v+1, or NaN
Int_(n) == [kind |-> "int", v |-> n]
Frac(n) == [kind |-> "frac", v |-> n]
NaN == [kind |-> "nan", v |-> 0]

\* the comparison written as bottomCount < 0
AcceptZero(bottomCount) == bottomCount.kind = "int" /\ ~(bottomCount.v < 0)

\* !(!Number.isInteger(bottomCount) || bottomCount < 1)
ValidBottomCount(bottomCount) == bottomCount.kind = "int" /\ ~(bottomCount.v < 1)

ErrBottomCount == "bottomCount must be an integer >= 1"
ErrBottomMode == "bottomMode must be a whole number 1, 2, 3, ..."

\* names.slice(0, n)
SliceFirst(names, n) == SubSeq(names, 1, n)

\* names.slice(-n), n >= 1
SliceLast(names, n) == SubSeq(names, Max(Len(names) - n, 0) + 1, Len(names))

\* Array.prototype.join
RECURSIVE Join(_, _)
Join(strs, sep) ==
  IF strs = <<>> THEN <<>>
  ELSE IF Len(strs) = 1 THEN strs[1]
  ELSE strs[1] \o sep \o Join(Tail(strs), sep)

\* `${num}. ${value}`
Entry(num, value) == NumberToString(num) \o <<".", " ">> \o value

\* Number.isFinite(r.round): every round number is an integer
IsFinite(n) == n \in Int

RECURSIVE TopEntries(_, _)
TopEntries(rounds, i) ==
  IF i > Len(rounds) THEN <<>>
  ELSE LET names == rounds[i].names
           num == IF IsFinite(rounds[i].round) THEN rounds[i].round ELSE i
       IN (IF Len(names) = 0 THEN <<>> ELSE <<Entry(num, names[1])>>)
          \o TopEntries(rounds, i + 1)

RECURSIVE BottomEntries(_, _, _)
BottomEntries(rounds, bottomCount, i) ==
  IF i > Len(rounds) THEN <<>>
  ELSE LET names == rounds[i].names
           num == IF IsFinite(rounds[i].round) THEN rounds[i].round ELSE i
           n == Min(bottomCount, Len(names))
       IN (IF Len(names) = 0 THEN <<>>
           ELSE <<Entry(num, Join(SliceLast(names, n), <<",", " ">>))>>)
          \o BottomEntries(rounds, bottomCount, i + 1)

buildTwoLists(rounds, bottomCount) ==
  IF ~ValidBottomCount(bottomCount)
  THEN [ok |-> FALSE, error |-> ErrBottomCount, topList |-> <<>>, bottomList |-> <<>>]
  ELSE [ok |-> TRUE, error |-> "",
        topList |-> TopEntries(rounds, 1),
        bottomList |-> BottomEntries(rounds, bottomCount.v, 1)]

\* property names every object literal inherits from Object.prototype
ObjectPrototypeKeys ==
  {<<"c", "o", "n", "s", "t", "r", "u", "c", "t", "o", "r">>, <<"t", "o", "S", "t", "r", "i", "n", "g">>, <<"v", "a", "l", "u", "e", "O", "f">>, <<"h", "a", "s", "O", "w", "n", "P", "r", "o", "p", "e", "r", "t", "y">>, <<"_", "_", "p", "r", "o", "t", "o", "_", "_">>}

\* a value stored in spotCounts: a number, or the string that + 1 appends a
\* "1" to when the left operand is not a number (v counts the appended ones)
Count(n) == [type |-> "number", v |-> n]
Text(n) == [type |-> "string", v |-> n]

\* (spotCounts[name] || 0) + 1: an own property is read first, then the
\* prototype chain; an inherited function or object is truthy and + joins it
\* with "1" into a string
Increment(spotCounts, name) ==
  IF name \in DOMAIN spotCounts
  THEN (IF spotCounts[name].type = "number" THEN Count(spotCounts[name].v + 1)
        ELSE Text(spotCounts[name].v + 1))
  ELSE IF name \in ObjectPrototypeKeys THEN Text(1)
  ELSE Count(1)

\* spotCounts[name] = value: the __proto__ setter ignores a primitive
Assign(spotCounts, name, value) ==
  IF name = <<"_", "_", "p", "r", "o", "t", "o", "_", "_">> THEN spotCounts
  ELSE [k \in DOMAIN spotCounts \cup {name} |->
          IF k = name THEN value ELSE spotCounts[k]]

NoRound == [round |-> 0, names |-> <<>>, found |-> FALSE]

\* rounds.find(r => r && Number(r.round) === 1) || rounds[0]
SelectRound1(rounds) ==
  LET ones == {i \in 1..Len(rounds) : rounds[i].round = 1}
  IN IF ones # {}
       THEN [round |-> 1, found |-> TRUE,
             names |-> rounds[CHOOSE i \in ones : \A j \in ones : i <= j].names]
     ELSE IF Len(rounds) > 0
       THEN [round |-> rounds[1].round, names |-> rounds[1].names, found |-> TRUE]
     ELSE NoRound

EmptyMap == [k \in {} |-> Count(0)]

RECURSIVE CountNames(_, _)
CountNames(names, spotCounts) ==
  IF names = <<>> THEN spotCounts
  ELSE LET name == norm(Head(names))
       IN CountNames(Tail(names),
            IF name = <<>> THEN spotCounts
            ELSE Assign(spotCounts, name, Increment(spotCounts, name)))

buildSpotCountsFromRound1(rounds) ==
  LET round1 == SelectRound1(rounds)
  IN IF ~round1.found THEN EmptyMap ELSE CountNames(round1.names, EmptyMap)
\* ------------------------------------------------------------ request values
\* a value of the JSON request body, or undefined for a missing field
JUndefined == [t |-> "undefined"]
JNull == [t |-> "null"]
JBool(b) == [t |-> "boolean", b |-> b]
JNumber(n) == [t |-> "number", n |-> n]
JString(s) == [t |-> "string", s |-> s]

\* Number(<string>) for the decimal forms: "", digits, digits.digits
StringToNumber(s) ==
  LET t == Trim(s)
      d == SkipWhile(t, 1, Digits)
      f == SkipWhile(t, d + 1, Digits)
  IN IF t = <<>> THEN Int_(0)
     ELSE IF d > 1 /\ d > Len(t) THEN Int_(DigitsToNumber(t))
     ELSE IF d > 1 /\ t[d] = "." /\ f > d + 1 /\ f > Len(t)
       THEN (IF \A i \in (d + 1)..Len(t) : t[i] = "0"
             THEN Int_(DigitsToNumber(SubSeq(t, 1, d - 1)))
             ELSE Frac(DigitsToNumber(SubSeq(t, 1, d - 1))))
     ELSE NaN

\* Number(bottomMode)
ToNumber(value) ==
  CASE value.t = "undefined" -> NaN
    [] value.t = "null" -> Int_(0)
    [] value.t = "boolean" -> Int_(IF value.b THEN 1 ELSE 0)
    [] value.t = "number" -> value.n
    [] value.t = "string" -> StringToNumber(value.s)

ErrMissingUrl == "Missing url"
VerifyPrefix == <<"h", "t", "t", "p", "s", ":", "/", "/", "g", "i", "v", "e", "a", "w", "a", "y", "s", ".", "r", "a", "n", "d", "o", "m", ".", "o", "r", "g", "/", "v", "e", "r", "i", "f", "y", "/">>

\* /^https?:\/\//i.test(url)
HasScheme(url) == LitAt(url, 1, <<"h", "t", "t", "p", ":", "/", "/">>) \/ LitAt(url, 1, <<"h", "t", "t", "p", "s", ":", "/", "/">>)

normalizeUrl(input) ==
  IF input.t # "string" \/ input.s = <<>>
  THEN [ok |-> FALSE, error |-> ErrMissingUrl, url |-> <<>>]
  ELSE LET url == Trim(input.s)
       IN [ok |-> TRUE, error |-> "",
           url |-> IF HasScheme(url) THEN url ELSE VerifyPrefix \o url]

ErrFetchRejected == "fetch failed"
ErrFetchStatus == "Fetch failed (404). Check the verify link/code."
ErrBotCheck == "Random.org is blocking automated requests from your server (bot check)."

\* /enable javascript|checking your browser|are you a robot|cloudflare/i.test(html)
IsBotCheck(text) ==
  \/ Contains(text, <<"e", "n", "a", "b", "l", "e", " ", "j", "a", "v", "a", "s", "c", "r", "i", "p", "t">>)
  \/ Contains(text, <<"c", "h", "e", "c", "k", "i", "n", "g", " ", "y", "o", "u", "r", " ", "b", "r", "o", "w", "s", "e", "r">>)
  \/ Contains(text, <<"a", "r", "e", " ", "y", "o", "u", " ", "a", " ", "r", "o", "b", "o", "t">>)
  \/ Contains(text, <<"c", "l", "o", "u", "d", "f", "l", "a", "r", "e">>)

\* res.json({ ok: false, error: err.message }) without the status
ErrorResponseNoStatus(message) ==
  [status |-> 200, body |-> [ok |-> FALSE, error |-> message]]

\* res.status(400).json({ ok: false, error: err.message })
ErrorResponse(message) ==
  [status |-> 400, body |-> [ok |-> FALSE, error |-> message]]

\* res.json({ ok: true, roundsCount, topList, bottomList, spotCounts })
SuccessResponse(rs, top, bottom, spots) ==
  [status |-> 200,
   body |-> [ok |-> TRUE, roundsCount |-> Len(rs), topList |-> top,
             bottomList |-> bottom, spotCounts |-> spots]]

\* ------------------------------------------------------------------- inputs
H1 == <<"R", "e", "s", "u", "l", "t", " ", "o", "f", " ", "R", "o", "u", "n", "d", " ", "#", "1">>
H2 == <<"R", "E", "S", "U", "L", "T", " ", "O", "F", " ", "R", "O", "U", "N", "D", " ", "#", "2">>
H3 == <<"R", "e", "s", "u", "l", "t", " ", "o", "f", " ", "R", "o", "u", "n", "d", " ", "#", "3">>
\* three lines with two leading numbers: odd white space, an accidental
\* leading index, a numeric name
TwoNumLines == <<"1", ".", "\t", "1", ".", NBSP, " ", "B", "o", "\n", "1", ".", " ", "2", ".", " ", "5", " ", "J", "o", "\n", "1", ".", " ", "3", ".", " ", "5", "6">>
\* a line with one leading number, and one that the keyword exclusion drops
OneNumLines == <<"1", ".", " ", "A", "l", "\n", "3", ".", " ", "R", "o", "u", "n", "d", " ", "#", "9">>
ChallengeLine == <<"C", "h", "e", "c", "k", "i", "n", "g", " ", "y", "o", "u", "r", " ", "b", "r", "o", "w", "s", "e", "r">>

Blocks == {H1, H2, H3, TwoNumLines, OneNumLines}

BlockSeqs == UNION {[1..n -> Blocks] : n \in 1..MaxBlocks}

Layouts == {"siblings", "wrapped", "same", "plain"}

BlockTag(block) == IF HasMarker(block) THEN "h2" ELSE "p"

\* the page that holds the blocks: one element per block under <body>, the
\* same elements inside one <div>, all lines inside one <p>, or bare text
MakeDoc(layout, blocks) ==
  LET elems == [i \in 1..Len(blocks) |-> Leaf(BlockTag(blocks[i]), blocks[i])]
  IN CASE layout = "siblings" -> elems
       [] layout = "wrapped" -> <<Box("div", elems)>>
       [] layout = "same" -> <<Leaf("p", Join(blocks, <<"\n">>))>>
       [] layout = "plain" -> <<Leaf("#text", Join(blocks, <<"\n">>))>>

\* the pages a fetch can return: the verify pages and a challenge page
Docs == {MakeDoc(l, b) : l \in Layouts, b \in BlockSeqs}
        \cup {MakeDoc("siblings", <<ChallengeLine>>)}

Urls == {JUndefined, JNumber(Int_(7)), JString(<<>>), JString(<<" ", "a", "b", "1", " ">>),
         JString(<<"H", "T", "T", "P", ":", "/", "/", "r", ".", "o", "r", "g", "/", "a", "b", "1">>)}

BottomModes ==
  {JUndefined, JNull, JBool(TRUE), JNumber(Int_(0 - 1)), JNumber(Frac(1)),
   JString(<<"2">>), JString(<<"a", "b", "c">>)}
  \cup {JNumber(Int_(n)) : n \in 0..MaxBottom}

\* -------------------------------------------------------------------- state
VARIABLES
  pc,           \* position of the handler: idle, fetch, text, parse, ...
  url,          \* req.body.url, while it is still read
  bottomMode,   \* req.body.bottomMode
  safeUrl,      \* normalizeUrl(url), while the fetch is pending
  html,         \* await resp.text(), as the tree cheerio.load builds
  rounds,       \* the rounds array parseRandomOrgVerify returned
  discovered,   \* the rounds array as it was before rounds.sort
  modes,        \* the boundary locators parseRandomOrgVerify consulted
  parseCalls,   \* calls of parseRandomOrgVerify in this request
  bottomCount,  \* Number(bottomMode)
  topList, bottomList, spotCounts,
  spotRound,    \* round1 of buildSpotCountsFromRound1
  error,        \* err.message of the exception thrown, "" if none
  responses     \* the responses sent for this request

vars == <<pc, url, bottomMode, safeUrl, html, rounds, discovered, modes,
          parseCalls, bottomCount, topList, bottomList, spotCounts, spotRound,
          error, responses>>

Fresh ==
  /\ url = JUndefined /\ bottomMode = JUndefined /\ safeUrl = <<>>
  /\ html = <<>> /\ rounds = <<>> /\ discovered = <<>> /\ modes = <<>>
  /\ parseCalls = 0 /\ bottomCount = NaN
  /\ topList = <<>> /\ bottomList = <<>> /\ spotCounts = EmptyMap
  /\ spotRound = NoRound /\ error = "" /\ responses = <<>>

Init == pc = "idle" /\ Fresh

\* throw new Error(message): control passes to the catch block
Throw(message) == pc' = "catch" /\ error' = message

\* ------------------------------------------------- app.post("/api/generate")
\* const { url, bottomMode } = req.body; const safeUrl = normalizeUrl(url);
\* fetch(safeUrl, ...) is started
Receive ==
  /\ pc = "idle"
  /\ \E u \in Urls, bm \in BottomModes :
       /\ bottomMode' = bm
       /\ LET n == normalizeUrl(u)
          IN IF n.ok THEN /\ pc' = "fetch" /\ url' = u /\ safeUrl' = n.url
                          /\ error' = error
             ELSE Throw(n.error) /\ UNCHANGED <<url, safeUrl>>
  /\ UNCHANGED <<html, rounds, discovered, modes, parseCalls, bottomCount,
                 topList, bottomList, spotCounts, spotRound, responses>>

\* await fetch(...) rejects: no response from the network
FetchReject ==
  /\ pc = "fetch"
  /\ Throw(ErrFetchRejected)
  /\ url' = JUndefined /\ safeUrl' = <<>>
  /\ UNCHANGED <<bottomMode, html, rounds, discovered, modes, parseCalls,
                 bottomCount, topList, bottomList, spotCounts, spotRound, responses>>

\* await fetch(...) resolves; if (!resp.ok) throw; resp.text() is started.
\* url and safeUrl are not read again and leave the state.
FetchResolve(ok) ==
  /\ pc = "fetch"
  /\ IF ok THEN pc' = "text" /\ error' = error ELSE Throw(ErrFetchStatus)
  /\ url' = JUndefined /\ safeUrl' = <<>>
  /\ UNCHANGED <<bottomMode, html, rounds, discovered, modes, parseCalls,
                 bottomCount, topList, bottomList, spotCounts, spotRound, responses>>

\* const html = await resp.text(); the bot-check test
ReadText ==
  /\ pc = "text"
  /\ \E doc \in Docs :
       IF IsBotCheck(BodyText(doc))
       THEN Throw(ErrBotCheck) /\ html' = html
       ELSE pc' = "parse" /\ html' = doc /\ error' = error
  /\ UNCHANGED <<url, bottomMode, safeUrl, rounds, discovered, modes, parseCalls,
                 bottomCount, topList, bottomList, spotCounts, spotRound, responses>>

\* const rounds = parseRandomOrgVerify(html); html is not read again
Parse ==
  /\ pc = "parse"
  /\ \E r \in {parseRandomOrgVerify(html)} :
        /\ IF r.ok THEN pc' = "validate" /\ error' = error ELSE Throw(r.error)
        /\ rounds' = r.rounds
        /\ modes' = r.modes
        /\ discovered' = r.pushed
  /\ parseCalls' = parseCalls + 1
  /\ html' = <<>>
  /\ UNCHANGED <<url, bottomMode, safeUrl, bottomCount, topList, bottomList,
                 spotCounts, spotRound, responses>>

\* const bottomCount = Number(bottomMode); if (...) throw
Validate ==
  /\ pc = "validate"
  /\ bottomCount' = ToNumber(bottomMode)
  /\ IF ValidBottomCount(ToNumber(bottomMode))
     THEN pc' = "lists" /\ error' = error
     ELSE Throw(ErrBottomMode)
  /\ UNCHANGED <<url, bottomMode, safeUrl, html, rounds, discovered, modes,
                 parseCalls, topList, bottomList, spotCounts, spotRound, responses>>

\* const { topList, bottomList } = buildTwoLists(rounds, bottomCount)
BuildLists ==
  /\ pc = "lists"
  /\ \E r \in {buildTwoLists(rounds, bottomCount)} :
        /\ IF r.ok THEN pc' = "spots" /\ error' = error ELSE Throw(r.error)
        /\ topList' = r.topList
        /\ bottomList' = r.bottomList
  /\ UNCHANGED <<url, bottomMode, safeUrl, html, rounds, discovered, modes,
                 parseCalls, bottomCount, spotCounts, spotRound, responses>>

\* const spotCounts = buildSpotCountsFromRound1(rounds)
BuildSpots ==
  /\ pc = "spots"
  /\ spotRound' = SelectRound1(rounds)
  /\ spotCounts' = buildSpotCountsFromRound1(rounds)
  /\ pc' = "respond"
  /\ UNCHANGED <<url, bottomMode, safeUrl, html, rounds, discovered, modes,
                 parseCalls, bottomCount, topList, bottomList, error, responses>>

\* res.json({ ok: true, ... })
Respond ==
  /\ pc = "respond"
  /\ responses' = Append(responses, SuccessResponse(rounds, topList, bottomList, spotCounts))
  /\ pc' = "done"
  /\ UNCHANGED <<url, bottomMode, safeUrl, html, rounds, discovered, modes,
                 parseCalls, bottomCount, topList, bottomList, spotCounts,
                 spotRound, error>>

\* catch (err) { res.status(400).json(...) }
Catch ==
  /\ pc = "catch"
  /\ responses' = Append(responses, ErrorResponse(error))
  /\ pc' = "done"
  /\ UNCHANGED <<url, bottomMode, safeUrl, html, rounds, discovered, modes,
                 parseCalls, bottomCount, topList, bottomList, spotCounts,
                 spotRound, error>>

\* the handler has returned; the next request starts from fresh locals
Finish ==
  /\ pc = "done"
  /\ pc' = "idle"
  /\ url' = JUndefined /\ bottomMode' = JUndefined /\ safeUrl' = <<>>
  /\ html' = <<>> /\ rounds' = <<>> /\ discovered' = <<>> /\ modes' = <<>>
  /\ parseCalls' = 0 /\ bottomCount' = NaN
  /\ topList' = <<>> /\ bottomList' = <<>> /\ spotCounts' = EmptyMap
  /\ spotRound' = NoRound /\ error' = "" /\ responses' = <<>>

Next ==
  \/ Receive
  \/ FetchReject
  \/ \E ok \in BOOLEAN : FetchResolve(ok)
  \/ ReadText
  \/ Parse
  \/ Validate
  \/ BuildLists
  \/ BuildSpots
  \/ Respond
  \/ Catch
  \/ Finish

Spec == Init /\ [][Next]_vars
\* ------------------------------------------- the view builders called alone
ViewNames == {<<"A", "l", NBSP>>, <<" ">>, <<"c", "o", "n", "s", "t", "r", "u", "c", "t", "o", "r">>}
NameLists == UNION {[1..n -> ViewNames] : n \in 0..MaxViewNames}
ViewRoundNumbers == {1, 2}
Ascending(rs) == \A i, j \in 1..Len(rs) : i < j => rs[i].round <= rs[j].round

\* round collections as the parser hands them over (sorted), with the empty
\* collection and empty name lists that the builders guard against
RoundNumberLists ==
  {ns \in UNION {[1..n -> ViewRoundNumbers] : n \in 0..MaxViewRounds} :
     \A i, j \in 1..Len(ns) : i < j => ns[i] <= ns[j]}
RoundCollection(ns, f) == [i \in 1..Len(ns) |-> [round |-> ns[i], names |-> f[i]]]

ViewBottomCounts == {Int_(n) : n \in 0..MaxBottom} \cup {Frac(1), NaN}

InitViews ==
  /\ pc = "views"
  /\ \E ns \in RoundNumberLists : \E f \in [1..Len(ns) -> NameLists] :
       rounds = RoundCollection(ns, f)
  /\ url = JUndefined /\ bottomMode = JUndefined /\ safeUrl = <<>>
  /\ html = <<>> /\ discovered = <<>> /\ modes = <<>>
  /\ parseCalls = 0 /\ bottomCount = NaN
  /\ topList = <<>> /\ bottomList = <<>> /\ spotCounts = EmptyMap
  /\ spotRound = NoRound /\ error = "" /\ responses = <<>>

CallBuildTwoLists ==
  /\ pc = "views"
  /\ \E b \in ViewBottomCounts :
       /\ bottomCount' = b
       /\ \E r \in {buildTwoLists(rounds, b)} :
             /\ topList' = r.topList
             /\ bottomList' = r.bottomList
             /\ error' = r.error
  /\ pc' = "viewLists"
  /\ UNCHANGED <<url, bottomMode, safeUrl, html, rounds, discovered, modes,
                 parseCalls, spotCounts, spotRound, responses>>

CallBuildSpotCounts ==
  /\ pc = "views"
  /\ spotRound' = SelectRound1(rounds)
  /\ spotCounts' = buildSpotCountsFromRound1(rounds)
  /\ pc' = "viewSpots"
  /\ UNCHANGED <<url, bottomMode, safeUrl, html, rounds, discovered, modes,
                 parseCalls, bottomCount, topList, bottomList, error, responses>>

NextViews ==
  \/ CallBuildTwoLists
  \/ CallBuildSpotCounts

SpecViews == InitViews /\ [][NextViews]_vars

\* ================================================================== claims
\* the normalized non-empty lines of the page text
DocLines(doc) ==
  LET split == SplitLines(norm(BodyText(doc)))
  IN SelectSeq([i \in 1..Len(split) |-> norm(split[i])], LAMBDA l : l # <<>>)

\* a well-formed round marker followed, further down, by a numbered name line
MarkerThenNameLine(doc) ==
  LET lines == DocLines(doc)
  IN \E i, j \in 1..Len(lines) :
       i < j /\ HasMarker(lines[i]) /\ LineNames(lines[j]) # <<>>

\* C1: every page with a well-formed "Result of Round #N" marker followed by
\* at least one numbered name line (one or two leading numbers; siblings, same
\* element or plain text) is extracted successfully into a non-empty
\* collection in ascending round order.
C1_ExtractionSucceeds ==
  [][(pc = "parse" /\ MarkerThenNameLine(html))
       => (pc' = "validate" /\ rounds' # <<>> /\ Ascending(rounds'))]_vars

SpotsBuilt == pc = "respond" \/ (pc = "done" /\ error = "")

HasRound1(rs) == \E i \in 1..Len(rs) : rs[i].round = 1

\* the first round numbered 1
FirstRound1(rs) ==
  rs[CHOOSE i \in 1..Len(rs) :
       rs[i].round = 1 /\ \A j \in 1..(i - 1) : rs[j].round # 1]

\* the first of the rounds with the lowest number
FirstLowest(rs) ==
  rs[CHOOSE i \in 1..Len(rs) :
       /\ \A j \in 1..Len(rs) : rs[i].round <= rs[j].round
       /\ \A j \in 1..(i - 1) : rs[j].round # rs[i].round]

ExpectedClean(c) ==
  LET d == SkipWhile(c, 1, Digits)
      w == SkipWhile(c, d, {" "})
  IN IF d > Len(c) THEN c
     ELSE IF d > 1 /\ w > d /\ w <= Len(c) THEN SubSeq(c, w, Len(c))
     ELSE c

\* the trailing texts the numbered lines of the page capture
Captures(doc) ==
  LET lines == DocLines(doc)
  IN {TwoNumsAt(lines[i], 1, FALSE).text :
        i \in {k \in 1..Len(lines) : TwoNumsAt(lines[k], 1, FALSE).found}}
     \cup
     {OneNumAt(lines[i], 1, FALSE).text :
        i \in {k \in 1..Len(lines) : OneNumAt(lines[k], 1, FALSE).found}}

AllNames(rs) == UNION {Range(rs[i].names) : i \in 1..Len(rs)}

\* C3: every extracted name is the cleaned form of a captured text (digits
\* only: unchanged; "5 Joe": "Joe"), and no extracted name is empty.
C3_NamesAreCleaned ==
  [][pc = "parse"
       => \A n \in AllNames(rounds') :
            n # <<>> /\ n \in {ExpectedClean(c) : c \in Captures(html)}]_vars

ListsBuilt ==
  \/ pc = "viewLists" /\ error = ""
  \/ pc \in {"spots", "respond"}
  \/ pc = "done" /\ error = ""

\* the last m names of a list, in their order
LastNames(names, m) == [j \in 1..m |-> names[Len(names) - m + j]]

\* C4: buildTwoLists emits, for every round with k >= 1 names, one top entry
\* "<round>. <first name>" and one bottom entry "<round>. <joined>" whose
\* joined part is the last min(bottomCount, k) names in order; both lists
\* have one entry per such round, in the order of the rounds.
C4_TwoLists ==
  ListsBuilt =>
    LET named == SelectSeq(rounds, LAMBDA r : Len(r.names) >= 1)
    IN /\ Len(topList) = Len(named)
       /\ Len(bottomList) = Len(named)
       /\ \A i \in 1..Len(named) :
            LET k == Len(named[i].names)
                m == IF bottomCount.v < k THEN bottomCount.v ELSE k
                prefix == NumberToString(named[i].round) \o <<".", " ">>
            IN /\ topList[i] = prefix \o named[i].names[1]
               /\ bottomList[i] = prefix \o Join(LastNames(named[i].names, m), <<",", " ">>)

C4_Witness ==
  /\ ListsBuilt
  /\ \E i \in 1..Len(rounds) :
       /\ Len(rounds[i].names) > bottomCount.v
       /\ rounds[i].names[1] # rounds[i].names[Len(rounds[i].names)]
  /\ Len(bottomList) = Len(rounds)

\* C5: extraction never succeeds with an empty collection or a round without
\* names, and a page with round markers but no parseable name line fails with
\* "Rounds detected but no participant lines parsed".
C5_NoEmptyRounds ==
  [][pc = "parse"
       => /\ pc' = "validate"
             => rounds' # <<>> /\ \A i \in 1..Len(rounds') : Len(rounds'[i].names) >= 1
          /\ pc' = "catch" /\ HasMarker(norm(BodyText(html))) => error' = ErrNoNames
          /\ (LET lines == DocLines(html)
              IN \A i \in 1..Len(lines) : LineNames(lines[i]) = <<>>)
             => pc' = "catch"]_vars

C5_Witness == pc = "catch" /\ error = ErrNoNames /\ parseCalls = 1 /\ rounds = <<>>

\* the request values that stand for an integer >= 1
DenotesPositiveInteger(bm) ==
  \/ bm.t = "number" /\ bm.n.kind = "int" /\ bm.n.v >= 1
  \/ bm.t = "string" /\ bm.s # <<>> /\ Range(bm.s) \subseteq Digits
       /\ DigitsToNumber(bm.s) >= 1
  \/ bm.t = "boolean" /\ bm.b

BottomCountErrors == {ErrBottomMode, ErrBottomCount}

\* C6 as stated: a bottom count that is not a positive integer always fails
\* with the bottom-count error and produces no lists.
C6_AlwaysBottomCountError ==
  (pc = "done" /\ ~DenotesPositiveInteger(bottomMode))
    => error \in BottomCountErrors /\ topList = <<>> /\ bottomList = <<>>

\* C6 amended: a bottom count that is not a positive integer never produces
\* lists and the request fails; the failure is the bottom-count error whenever
\* round extraction succeeded (an earlier failure is reported instead); every
\* accepted request value denotes an integer >= 1.
C6_NeverAccepted ==
  /\ ~DenotesPositiveInteger(bottomMode)
       => topList = <<>> /\ bottomList = <<>> /\ pc \notin {"lists", "spots", "respond"}
  /\ (pc = "done" /\ ~DenotesPositiveInteger(bottomMode))
       => /\ responses[1].status = 400
          /\ rounds # <<>> => error \in BottomCountErrors
  /\ pc \in {"lists", "spots", "respond"}
       => bottomCount.kind = "int" /\ bottomCount.v >= 1

C6_Witness ==
  pc = "done" /\ bottomMode = JNumber(Int_(0)) /\ error = ErrBottomMode /\ rounds # <<>>

\* the names of a round that are non-empty after normalization
CountedNames(names) == {i \in 1..Len(names) : norm(names[i]) # <<>>}

RECURSIVE SumCounts(_, _)
SumCounts(map, keys) ==
  IF keys = {} THEN 0
  ELSE LET k == CHOOSE x \in keys : TRUE
       IN map[k].v + SumCounts(map, keys \ {k})

\* C7: the counts of the spot-count map are numbers that add up to the number
\* of non-empty names of the selected round, each key counts the names that
\* normalize to it, and the map is empty when there is no round or no name.
C7_CountsMatchNames ==
  pc = "viewSpots" =>
    LET names == spotRound.names
    IN /\ DOMAIN spotCounts = {norm(names[i]) : i \in CountedNames(names)}
       /\ \A k \in DOMAIN spotCounts :
            /\ spotCounts[k].type = "number"
            /\ spotCounts[k].v = Cardinality({i \in CountedNames(names) : norm(names[i]) = k})
       /\ SumCounts(spotCounts, DOMAIN spotCounts) = Cardinality(CountedNames(names))
       /\ (rounds = <<>> \/ names = <<>>) => spotCounts = EmptyMap

ResultFields == {"roundsCount", "topList", "bottomList", "spotCounts"}

\* C8: a request gets exactly one response when the handler ends and none
\* before; a failure at any stage answers with a client-error status, ok false
\* and the error message and no result field; a success answers ok true with
\* the four result fields; after a flagged bot check the parser is never run.
C8_OneResponse ==
  /\ pc # "done" => responses = <<>>
  /\ pc = "done" => Len(responses) = 1
  /\ (pc = "done" /\ error # "")
       => /\ responses[1].status \in 400..499
          /\ DOMAIN responses[1].body = {"ok", "error"}
          /\ responses[1].body.ok = FALSE
          /\ responses[1].body.error = error
  /\ (pc = "done" /\ error = "")
       => /\ responses[1].status = 200
          /\ DOMAIN responses[1].body = {"ok"} \cup ResultFields
          /\ responses[1].body.ok = TRUE
          /\ responses[1].body.roundsCount = Len(rounds)
          /\ responses[1].body.topList = topList
          /\ responses[1].body.bottomList = bottomList
          /\ responses[1].body.spotCounts = spotCounts
  /\ error # "" => pc \in {"catch", "done"}
  /\ error = ErrBotCheck => parseCalls = 0 /\ modes = <<>>
  /\ parseCalls <= 1

C8_Witness ==
  pc = "done" /\ error = ErrBotCheck /\ Len(responses) = 1 /\ parseCalls = 0

\* C9: markup mode is consulted first; text mode is consulted if and only if
\* markup mode finds no anchor; extraction fails with "No rounds found"
\* exactly when neither mode finds an anchor.
C9_FallbackChain ==
  [][pc = "parse"
       => LET markupAnchors == Len(HeadingNodes(html, 1))
              textAnchors == Len(TextHeadings(norm(BodyText(html))))
          IN /\ modes' # <<>> /\ modes'[1] = "markup"
             /\ ("text" \in Range(modes')) <=> (markupAnchors = 0)
             /\ (pc' = "catch" /\ error' \in {ErrNoRoundsMarkup, ErrNoRoundsText})
                  <=> (markupAnchors = 0 /\ textAnchors = 0)]_vars

C9_Witness ==
  pc = "catch" /\ error = ErrNoNames /\ modes = <<"markup">> /\ parseCalls = 1

\* the chunks text mode cuts the page text into
TextChunks(doc) ==
  LET text == norm(BodyText(doc))
      headings == TextHeadings(text)
  IN {norm(SubSeq(text, headings[i].index,
                  IF i + 1 <= Len(headings) THEN headings[i + 1].index - 1
                  ELSE Len(text))) : i \in 1..Len(headings)}

\* C10: text mode applies the same name-list extractor as markup mode: for
\* every chunk of lines under a round heading of a page that text mode
\* handles, both produce the same names.
C10_SameExtractor ==
  (pc = "parse" /\ HeadingNodes(html, 1) = <<>>) =>
    \A chunk \in TextChunks(html) :
      TextChunkNames(chunk, 1) = extractNamesFromChunk(chunk)
====
